---- MODULE Spec2Model ----
(***************************************************************************)
(* Process Messaging Core of rembrain_robot_framework (RobotProcess):      *)
(* named publish/consume channels over blocking FIFO queues, and the       *)
(* correlated request/response subsystem over per-worker system queues.    *)
(*                                                                         *)
(* A worker is one execution context.  Every queue operation (full, empty, *)
(* get, put) is one atomic step; the code between two queue operations     *)
(* touches only worker-local state and is folded into the step before it.  *)
(***************************************************************************)
EXTENDS Integers, Sequences, FiniteSets, TLC

VARIABLES
    queues,     \* queue id -> content of the inter-process queue (FIFO)
    sysq,       \* worker name -> content of its system queue
    received,   \* worker name -> _received_personal_messages (id -> data)
    frame,      \* worker name -> the call the worker is in, or its last result
    uuid,       \* number of uuid4() values drawn so far
    hist        \* observation of the last call started: the state at its
                \* entry, its arguments and the replies it took

vars == <<queues, sysq, received, frame, uuid, hist>>

----------------------------------------------------------------------------
(* Bounds of the model *)

\* Longest content of a queue created without a maxsize that a call is started on
MaxQueue == 1
\* Number of messages put on one queue in a run of SpecFifo
MaxLog == 2
\* Number of uuid4() draws (personal publishes) in a run
MaxUuid == 1
\* Number of calls of free_resources in a run of SpecTeardown and SpecDrain
MaxCalls == 2
\* Number of replies enqueued in a run of SpecPersonal
MaxRouted == 2
\* Number of messages of the stream of SpecStream
StreamLen == 3
\* Number of replies enqueued in a run of SpecSys
MaxReplies == 4
\* Replies beyond the cap that the replier of SpecCap may enqueue
MaxExtra == 2

\* process.py:222  len(self._received_personal_messages) > 50
MaxPersonalMessages == 50

----------------------------------------------------------------------------
(* Values *)

None == "None"

Messages == {"m1", "m2"}

\* The correlation ids of the replies of SpecSys: three, for a wait that takes
\* two replies with other ids first
SysIds == 1..3

\* data carried by a reply: a string, and an object that has a .data attribute
Payloads == {"pong", "obj"}

\* A message that publish enqueues as it is
Plain(m) == [personal |-> FALSE, id |-> 0, client_process |-> "", data |-> m]

\* PersonalMessage(id=..., client_process=..., data=...)
PersonalMessage(id, client_process, data) ==
    [personal |-> TRUE, id |-> id, client_process |-> client_process, data |-> data]

NoMsg == Plain("")

\* What a call gave back: None, a value, or an exception
RetPending == [kind |-> "pending", id |-> 0, msg |-> NoMsg, text |-> ""]
RetNone == [kind |-> "None", id |-> 0, msg |-> NoMsg, text |-> ""]
RetId(id) == [kind |-> "id", id |-> id, msg |-> NoMsg, text |-> ""]
RetMessage(m) == [kind |-> "message", id |-> 0, msg |-> m, text |-> ""]
RetData(d) == [kind |-> "data", id |-> 0, msg |-> NoMsg, text |-> d]
Raise(e) == [kind |-> "raise", id |-> 0, msg |-> NoMsg, text |-> e]
\* The caller gets a bool back
RetBool(b) == [kind |-> "bool", id |-> 0, msg |-> NoMsg, text |-> IF b THEN "True" ELSE "False"]

\* The attribute access  value.data  on a value kept in the pending buffer:
\* a string has no such attribute, the object "obj" has one
HasDataAttr(v) == v = "obj"
DataAttr(v) == IF HasDataAttr(v) THEN RetData("inner") ELSE Raise("AttributeError")

----------------------------------------------------------------------------
(* Channel set: the wiring handed to the constructor *)

Workers == {"P", "Q", "R"}
\* T is a worker that is only torn down: "frames" names one of its consume
\* queues and one of its publish channels, whose destinations R reads
Contexts == Workers \cup {"T"}

QueueIds == {1, 2, 3, 4}

\* Queue(maxsize=...): 0 is a queue without a bound
maxsize(q) == IF q = 3 THEN 0 ELSE IF q = 4 THEN 1 ELSE 2

\* self._consume_queues of each worker
ConsumeQueues(w) ==
    CASE w = "P" -> [n \in {"cmd"} |-> 3]
      [] w = "Q" -> [n \in {} |-> 0]
      [] w = "R" -> [n \in {"frames", "aux", "video"} |->
                       IF n = "frames" THEN 1 ELSE IF n = "aux" THEN 2 ELSE 4]
      [] w = "T" -> [n \in {"frames"} |-> 1]

\* self._publish_queues of each worker
PublishQueues(w) ==
    CASE w = "P" -> [n \in {"frames"} |-> <<1, 2>>]
      [] w = "Q" -> [n \in {"frames", "cmd", "video"} |->
                       IF n = "frames" THEN <<1>> ELSE IF n = "cmd" THEN <<3>> ELSE <<4>>]
      [] w = "R" -> [n \in {} |-> <<>>]
      [] w = "T" -> [n \in {"frames", "cmd"} |-> IF n = "frames" THEN <<2, 4>> ELSE <<3>>]

\* The channel names that the calls of Spec, SpecSeq and SpecFifo are given;
\* "video" (queue 4, Q to R, maxsize 1) carries the stream of SpecStream
ChannelNames == {"frames", "cmd", "aux"}

\* list(d.keys())[0] of a dictionary with exactly one key
OnlyKey(d) == CHOOSE n \in DOMAIN d : TRUE

----------------------------------------------------------------------------
(* multiprocessing.Queue as the code uses it *)

full(q) == maxsize(q) > 0 /\ Len(queues[q]) >= maxsize(q)
\* empty() that never reports an empty queue
EmptyNever(q) == FALSE
empty(q) == queues[q] = <<>>
\* get() blocks while the queue is empty, put() while it is full
CanGet(q) == ~empty(q)
CanPut(q) == ~full(q)

----------------------------------------------------------------------------
(* Frames *)

Idle ==
    [op |-> "none", pc |-> "idle", queue_name |-> None, message |-> NoMsg,
     flag |-> FALSE, personal_id |-> 0, i |-> 0, names |-> <<>>, ret |-> RetPending]

\* The worker is between two calls
AtRest(w) == frame[w].pc = "idle"

\* The call is over: its locals are gone, the caller holds what it gave back
Return(f, r) == [Idle EXCEPT !.op = f.op, !.pc = "done", !.ret = r]

\* Every worker is between two calls
Quiet == \A w \in Workers : AtRest(w)

\* The caller goes on after the call
resume(w) ==
    /\ frame[w].pc = "done"
    /\ frame' = [frame EXCEPT ![w] = Idle]
    /\ UNCHANGED <<queues, sysq, received, uuid>>

----------------------------------------------------------------------------
(* publish: process.py 93-120 *)

\* The caller gets nothing back and nothing is sent
NoTarget == "<return>"

\* PublishTarget with the test of line 100 inverted
PublishTargetInverted(w, queue_name) ==
    LET keys == DOMAIN PublishQueues(w) IN
    IF Cardinality(keys) = 0 THEN NoTarget
    ELSE IF queue_name = None
         THEN IF Cardinality(keys) = 1 THEN NoTarget ELSE OnlyKey(PublishQueues(w))
         ELSE queue_name

\* PublishTarget without the test of line 100: the first channel is taken
PublishTargetFirst(w, queue_name) ==
    LET keys == DOMAIN PublishQueues(w) IN
    IF Cardinality(keys) = 0 THEN NoTarget
    ELSE IF queue_name = None THEN OnlyKey(PublishQueues(w)) ELSE queue_name

\* Lines 95-104: the channel a publish call writes to
PublishTarget(w, queue_name) ==
    LET keys == DOMAIN PublishQueues(w) IN
    IF Cardinality(keys) = 0 THEN NoTarget
    ELSE IF queue_name = None
         THEN IF Cardinality(keys) # 1 THEN NoTarget ELSE OnlyKey(PublishQueues(w))
         ELSE queue_name

\* The queue the fan-out loop of worker w is at
Dest(w) == PublishQueues(w)[frame[w].queue_name][frame[w].i]

\* NextDest that stops after the first queue of the list
NextDestFirstOnly(w, f) ==
    IF f.i < 1
    THEN [f EXCEPT !.i = f.i + 1, !.pc = IF f.flag THEN "full" ELSE "put"]
    ELSE Return(f, IF f.personal_id = 0 THEN RetNone ELSE RetId(f.personal_id))

\* Line 113 and 120: the next queue of the list, or return personal_id
NextDest(w, f) ==
    IF f.i < Len(PublishQueues(w)[f.queue_name])
    THEN [f EXCEPT !.i = f.i + 1, !.pc = IF f.flag THEN "full" ELSE "put"]
    ELSE Return(f, IF f.personal_id = 0 THEN RetNone ELSE RetId(f.personal_id))

\* Lines 93-113: the call up to the first queue operation
publish(w, message, queue_name, clear_on_overflow, is_personal) ==
    /\ AtRest(w)
    /\ LET target == PublishTarget(w, queue_name)
           personal_id == IF is_personal THEN uuid + 1 ELSE 0
           f == [Idle EXCEPT !.op = "publish", !.flag = clear_on_overflow]
       IN IF target = NoTarget
          THEN /\ frame' = [frame EXCEPT ![w] = Return(f, RetNone)]
               /\ UNCHANGED uuid
          ELSE /\ uuid' = IF is_personal THEN uuid + 1 ELSE uuid
               /\ frame' = [frame EXCEPT ![w] =
                    IF target \notin DOMAIN PublishQueues(w)
                    THEN Return(f, Raise("KeyError"))
                    ELSE NextDest(w, [f EXCEPT
                           !.queue_name = target,
                           !.personal_id = personal_id,
                           !.message = IF is_personal
                                       THEN PersonalMessage(personal_id, w, message)
                                       ELSE Plain(message)])]
    /\ UNCHANGED <<queues, sysq, received>>

\* Overflowing that clears the queue whenever it holds anything
OverflowingNotEmpty(q) == ~empty(q)

\* Line 115: the condition of the discard loop
Overflowing(q) == full(q)

\* Line 115: while q.full()
publish_full(w) ==
    /\ frame[w].op = "publish" /\ frame[w].pc = "full"
    /\ frame' = [frame EXCEPT ![w].pc = IF Overflowing(Dest(w)) THEN "discard" ELSE "put"]
    /\ UNCHANGED <<queues, sysq, received, uuid>>

\* Line 116: q.get()
publish_get(w) ==
    /\ frame[w].op = "publish" /\ frame[w].pc = "discard"
    /\ CanGet(Dest(w))
    /\ queues' = [queues EXCEPT ![Dest(w)] = Tail(@)]
    /\ frame' = [frame EXCEPT ![w].pc = "full"]
    /\ UNCHANGED <<sysq, received, uuid>>

\* publish_put that does not wait for room: on a full queue the message is dropped
publish_put_nowait(w) ==
    /\ frame[w].op = "publish" /\ frame[w].pc = "put"
    /\ queues' = [queues EXCEPT ![Dest(w)] =
                    IF CanPut(Dest(w)) THEN Append(@, frame[w].message) ELSE @]
    /\ frame' = [frame EXCEPT ![w] = NextDest(w, frame[w])]
    /\ UNCHANGED <<sysq, received, uuid>>

\* Line 118: q.put(message)
publish_put(w) ==
    /\ frame[w].op = "publish" /\ frame[w].pc = "put"
    /\ CanPut(Dest(w))
    /\ queues' = [queues EXCEPT ![Dest(w)] = Append(@, frame[w].message)]
    /\ frame' = [frame EXCEPT ![w] = NextDest(w, frame[w])]
    /\ UNCHANGED <<sysq, received, uuid>>

----------------------------------------------------------------------------
(* consume: process.py 122-141 *)

\* Lines 123-134: the channel a consume call reads
ConsumeTarget(w, queue_name) ==
    LET keys == DOMAIN ConsumeQueues(w) IN
    IF Cardinality(keys) = 0 THEN NoTarget
    ELSE IF queue_name = None
         THEN IF Cardinality(keys) # 1 THEN NoTarget ELSE OnlyKey(ConsumeQueues(w))
         ELSE queue_name

\* The queue the consume call of worker w reads
Source(w) == ConsumeQueues(w)[frame[w].queue_name]

\* Lines 122-136: the call up to the blocking get
consume(w, queue_name, clear_all_messages) ==
    /\ AtRest(w)
    /\ LET target == ConsumeTarget(w, queue_name)
           f == [Idle EXCEPT !.op = "consume", !.flag = clear_all_messages]
       IN frame' = [frame EXCEPT ![w] =
            IF target = NoTarget THEN Return(f, RetNone)
            ELSE IF target \notin DOMAIN ConsumeQueues(w) THEN Return(f, Raise("KeyError"))
            ELSE [f EXCEPT !.queue_name = target, !.pc = "get"]]
    /\ UNCHANGED <<queues, sysq, received, uuid>>

\* AfterGet that never drains: clear_all_messages is ignored
AfterGetFirst(f) == Return(f, RetMessage(f.message))

\* AfterGet without the test of line 137: every consume drains the queue
AfterGetDrain(f) == [f EXCEPT !.pc = "empty"]

\* Lines 137-141: with clear_all_messages go on to the emptiness test, else return
AfterGet(f) ==
    IF f.flag THEN [f EXCEPT !.pc = "empty"] ELSE Return(f, RetMessage(f.message))

\* Line 136 (pc "get") and line 139 (pc "drain"): message = queue.get()
consume_get(w) ==
    /\ frame[w].op = "consume" /\ frame[w].pc \in {"get", "drain"}
    /\ CanGet(Source(w))
    /\ queues' = [queues EXCEPT ![Source(w)] = Tail(@)]
    /\ frame' = [frame EXCEPT ![w] =
         AfterGet([frame[w] EXCEPT !.message = Head(queues[Source(w)])])]
    /\ UNCHANGED <<sysq, received, uuid>>

\* Line 138: while not queue.empty(); line 141: return message
consume_empty(w) ==
    /\ frame[w].op = "consume" /\ frame[w].pc = "empty"
    /\ frame' = [frame EXCEPT ![w] =
         IF empty(Source(w)) THEN Return(frame[w], RetMessage(frame[w].message))
         ELSE [frame[w] EXCEPT !.pc = "drain"]]
    /\ UNCHANGED <<queues, sysq, received, uuid>>

----------------------------------------------------------------------------
(* Correlated replies: process.py 209-229 *)

\* A Python dict as a function on its keys
EmptyDict == [k \in {} |-> ""]
DictSet(d, k, v) == [x \in DOMAIN d \cup {k} |-> IF x = k THEN v ELSE d[x]]
DictDel(d, k) == [x \in DOMAIN d \ {k} |-> d[x]]

\* Overflow that lets one more reply in
OverflowLate(d) == Cardinality(DOMAIN d) > MaxPersonalMessages + 1

\* Overflow that raises one reply early
OverflowEarly(d) == Cardinality(DOMAIN d) >= MaxPersonalMessages

\* Line 222: len(self._received_personal_messages) > 50
Overflow(d) == Cardinality(DOMAIN d) > MaxPersonalMessages

\* Lines 220-225: raise on overflow, or go to the blocking get
WaitOrRaise(f, d) ==
    IF Overflow(d) THEN Return(f, Raise("Overflow")) ELSE [f EXCEPT !.pc = "sysget"]

\* Kept that stores an empty value under the id of the reply
KeptNothing(message) == ""

\* Line 229: what the buffer keeps of a reply that was not waited for
Kept(message) == message.data

\* Buffer that forgets what it held when a reply is stored
Forget(d, message) == DictSet(EmptyDict, message.id, Kept(message))

\* Line 229: self._received_personal_messages[message.id] = message.data
Buffer(d, message) == DictSet(d, message.id, Kept(message))

\* publish_to_system_queue that enqueues on the system queue of the sender
publish_to_own_system_queue(w, personal_id, client_process, data) ==
    /\ AtRest(w)
    /\ sysq' = [sysq EXCEPT ![w] =
                  Append(@, PersonalMessage(personal_id, client_process, data))]
    /\ frame' = [frame EXCEPT ![w] =
                  Return([Idle EXCEPT !.op = "publish_to_system_queue"], RetNone)]
    /\ UNCHANGED <<queues, received, uuid>>

\* Lines 209-212
publish_to_system_queue(w, personal_id, client_process, data) ==
    /\ AtRest(w)
    /\ sysq' = [sysq EXCEPT ![client_process] =
                  Append(@, PersonalMessage(personal_id, client_process, data))]
    /\ frame' = [frame EXCEPT ![w] =
                  Return([Idle EXCEPT !.op = "publish_to_system_queue"], RetNone)]
    /\ UNCHANGED <<queues, received, uuid>>

\* Lines 214-225: the call up to the blocking get
consume_from_system_queue(w, personal_id) ==
    /\ AtRest(w)
    /\ LET f == [Idle EXCEPT !.op = "consume_from_system_queue",
                             !.personal_id = personal_id]
       IN IF personal_id \in DOMAIN received[w]
          THEN /\ received' = [received EXCEPT ![w] = DictDel(@, personal_id)]
               /\ frame' = [frame EXCEPT ![w] =
                              Return(f, DataAttr(received[w][personal_id]))]
          ELSE /\ frame' = [frame EXCEPT ![w] = WaitOrRaise(f, received[w])]
               /\ UNCHANGED received
    /\ UNCHANGED <<queues, sysq, uuid>>

\* system_get without the test of line 226: any reply ends the wait
system_get_any(w) ==
    /\ frame[w].op = "consume_from_system_queue" /\ frame[w].pc = "sysget"
    /\ sysq[w] # <<>>
    /\ sysq' = [sysq EXCEPT ![w] = Tail(@)]
    /\ frame' = [frame EXCEPT ![w] = Return(@, RetData(Head(sysq[w]).data))]
    /\ UNCHANGED <<queues, received, uuid>>

\* Lines 225-229, and 222 of the next round
system_get(w) ==
    /\ frame[w].op = "consume_from_system_queue" /\ frame[w].pc = "sysget"
    /\ sysq[w] # <<>>
    /\ LET message == Head(sysq[w]) IN
       /\ sysq' = [sysq EXCEPT ![w] = Tail(@)]
       /\ IF message.id = frame[w].personal_id
          THEN /\ frame' = [frame EXCEPT ![w] = Return(@, RetData(message.data))]
               /\ UNCHANGED received
          ELSE /\ received' = [received EXCEPT ![w] = Buffer(@, message)]
               /\ frame' = [frame EXCEPT ![w] = WaitOrRaise(@, received'[w])]
    /\ UNCHANGED <<queues, uuid>>

----------------------------------------------------------------------------
(* Observation of a call, for the properties below: the state a call started *)
(* in, the channel name it was given and the replies it has taken.           *)

NoHist ==
    [w |-> "", queues |-> [q \in QueueIds |-> <<>>], received |-> EmptyDict,
     queue_name |-> None, message |-> "", flag |-> FALSE, is_personal |-> FALSE,
     uuid |-> 0, personal_id |-> 0, sysq |-> <<>>, got |-> <<>>, sent |-> 0]

\* A call of worker w starts
Enter(w, queue_name, message, flag, is_personal) ==
    hist' = [NoHist EXCEPT !.w = w, !.queues = queues, !.queue_name = queue_name,
                           !.message = message, !.flag = flag,
                           !.is_personal = is_personal, !.uuid = uuid]

\* A consume_from_system_queue call of worker w starts
EnterSys(w, personal_id) ==
    hist' = [NoHist EXCEPT !.w = w, !.received = received[w], !.sysq = sysq[w],
                           !.personal_id = personal_id, !.sent = hist.sent]

\* A reply is enqueued
Sent == hist' = [hist EXCEPT !.sent = @ + 1]

\* Worker w takes the head of its system queue
Took(w) == hist' = [hist EXCEPT !.got = Append(@, Head(sysq[w]))]

Init ==
    /\ queues = [q \in QueueIds |-> <<>>]
    /\ sysq = [w \in Workers |-> <<>>]
    /\ received = [w \in Workers |-> EmptyDict]
    /\ frame = [w \in Contexts |-> Idle]
    /\ uuid = 0
    /\ hist = NoHist

\* No call is started that would grow an unbounded queue past MaxQueue
Room(w, queue_name) ==
    LET target == PublishTarget(w, queue_name) IN
    target \in DOMAIN PublishQueues(w) =>
        \A k \in DOMAIN PublishQueues(w)[target] :
            LET q == PublishQueues(w)[target][k]
            IN maxsize(q) = 0 => Len(queues[q]) < MaxQueue

----------------------------------------------------------------------------
(* Workers running concurrently: every interleaving of their queue operations *)

Next ==
    \E w \in Workers :
        \/ \E n \in ChannelNames \cup {None}, c \in BOOLEAN :
              /\ Room(w, n)
              /\ publish(w, "m1", n, c, FALSE)
              /\ UNCHANGED hist
        \/ publish_full(w) /\ UNCHANGED hist
        \/ publish_get(w) /\ UNCHANGED hist
        \/ publish_put(w) /\ UNCHANGED hist
        \/ \E n \in ChannelNames \cup {None}, c \in BOOLEAN :
              consume(w, n, c) /\ UNCHANGED hist
        \/ consume_get(w) /\ UNCHANGED hist
        \/ consume_empty(w) /\ UNCHANGED hist
        \/ resume(w) /\ UNCHANGED hist

Spec == Init /\ [][Next]_vars

\* Personal sends come from P, and draw at most MaxUuid ids in a run
Fresh(w, queue_name, is_personal) ==
    (is_personal /\ PublishTarget(w, queue_name) # NoTarget) =>
        (w = "P" /\ uuid < MaxUuid)

----------------------------------------------------------------------------
(* One call at a time: a call starts when every worker is between two calls *)

NextSeq ==
    \E w \in Workers :
        \/ \E m \in Messages, n \in ChannelNames \cup {None}, c, p \in BOOLEAN :
              /\ Quiet
              /\ Room(w, n)
              /\ Fresh(w, n, p)
              /\ publish(w, m, n, c, p)
              /\ Enter(w, n, m, c, p)
        \/ publish_full(w) /\ UNCHANGED hist
        \/ publish_get(w) /\ UNCHANGED hist
        \/ publish_put(w) /\ UNCHANGED hist
        \/ \E n \in ChannelNames \cup {None}, c \in BOOLEAN :
              /\ Quiet
              /\ consume(w, n, c)
              /\ Enter(w, n, "", c, FALSE)
        \/ consume_get(w) /\ UNCHANGED hist
        \/ consume_empty(w) /\ UNCHANGED hist
        \/ resume(w) /\ hist' = NoHist

SpecSeq == Init /\ [][NextSeq]_vars

----------------------------------------------------------------------------
(* Plain publishes and consumes, one call at a time, with a log per queue of *)
(* the messages put on it and of the messages consume returned from it      *)

InitFifo ==
    /\ queues = [q \in QueueIds |-> <<>>]
    /\ sysq = [w \in Workers |-> <<>>]
    /\ received = [w \in Workers |-> EmptyDict]
    /\ frame = [w \in Contexts |-> Idle]
    /\ uuid = 0
    /\ hist = [published |-> [q \in QueueIds |-> <<>>],
               returned |-> [q \in QueueIds |-> <<>>]]

\* No call is started that would put more than MaxLog messages on a queue
RoomInLog(w, queue_name) ==
    LET target == PublishTarget(w, queue_name) IN
    target \in DOMAIN PublishQueues(w) =>
        \A k \in DOMAIN PublishQueues(w)[target] :
            Len(hist.published[PublishQueues(w)[target][k]]) < MaxLog

NextFifo ==
    \E w \in Workers :
        \/ \E m \in Messages, n \in ChannelNames \cup {None} :
              /\ Quiet
              /\ RoomInLog(w, n)
              /\ publish(w, m, n, FALSE, FALSE)
              /\ UNCHANGED hist
        \/ /\ publish_put(w)
           /\ hist' = [hist EXCEPT !.published[Dest(w)] = Append(@, frame[w].message)]
        \/ \E n \in ChannelNames \cup {None} :
              Quiet /\ consume(w, n, FALSE) /\ UNCHANGED hist
        \/ /\ consume_get(w)
           /\ hist' = IF frame'[w].pc = "done"
                      THEN [hist EXCEPT !.returned[Source(w)] = Append(@, frame'[w].ret.msg)]
                      ELSE hist
        \/ resume(w) /\ UNCHANGED hist

SpecFifo == InitFifo /\ [][NextFifo]_vars

----------------------------------------------------------------------------
(* Teardown: process.py 61-91 *)

\* Lines 80-91 up to the next queue operation: the first name left in the list
\* that is a consume queue (line 84) or else a publish channel (line 88) of the
\* worker selects the queue tested next; i = 0 stands for the consume queue,
\* i >= 1 for the i-th destination of the publish channel
RECURSIVE ClearQueues(_, _)
ClearQueues(w, f) ==
    IF f.names = <<>> THEN Return(f, RetNone)
    ELSE LET queue == Head(f.names)
             rest == [f EXCEPT !.names = Tail(@)]
         IN IF queue \in DOMAIN ConsumeQueues(w)
            THEN [rest EXCEPT !.queue_name = queue, !.i = 0, !.pc = "clear_empty"]
            ELSE IF queue \in DOMAIN PublishQueues(w) /\ PublishQueues(w)[queue] # <<>>
                 THEN [rest EXCEPT !.queue_name = queue, !.i = 1, !.pc = "clear_empty"]
                 ELSE ClearQueues(w, rest)

\* The queue that clear_queue is working on
ClearTarget(w) ==
    IF frame[w].i = 0
    THEN ConsumeQueues(w)[frame[w].queue_name]
    ELSE PublishQueues(w)[frame[w].queue_name][frame[w].i]

\* free_resources: the monitor and close_objects (65-68) touch no queue;
\* clear_queues walks self.queues_to_clear (77-81)
free_resources(w, queues_to_clear) ==
    /\ AtRest(w)
    /\ frame' = [frame EXCEPT ![w] =
                   ClearQueues(w, [Idle EXCEPT !.op = "free_resources",
                                              !.names = queues_to_clear])]
    /\ UNCHANGED <<queues, sysq, received, uuid>>

\* Lines 85 and 90: while not q.empty()
clear_empty(w) ==
    /\ frame[w].op = "free_resources" /\ frame[w].pc = "clear_empty"
    /\ LET f == frame[w] IN
       frame' = [frame EXCEPT ![w] =
                   IF empty(ClearTarget(w))
                   THEN IF f.i = 0 \/ f.i = Len(PublishQueues(w)[f.queue_name])
                        THEN ClearQueues(w, f)
                        ELSE [f EXCEPT !.i = @ + 1]
                   ELSE [f EXCEPT !.pc = "clear_get"]]
    /\ UNCHANGED <<queues, sysq, received, uuid>>

\* Lines 86 and 91: q.get(timeout=2.0) takes the head, or raises queue.Empty
\* once the queue has stayed empty for the time of the wait
clear_get(w) ==
    /\ frame[w].op = "free_resources" /\ frame[w].pc = "clear_get"
    /\ IF CanGet(ClearTarget(w))
       THEN /\ queues' = [queues EXCEPT ![ClearTarget(w)] = Tail(@)]
            /\ frame' = [frame EXCEPT ![w].pc = "clear_empty"]
       ELSE /\ frame' = [frame EXCEPT ![w] = Return(@, Raise("Empty"))]
            /\ UNCHANGED queues
    /\ UNCHANGED <<sysq, received, uuid>>

\* The values self.queues_to_clear is given: "aux" is no channel of T
ClearLists ==
    {<<>>, <<"frames">>, <<"cmd">>, <<"frames", "cmd">>, <<"cmd", "frames">>, <<"aux">>}

\* A queue holding n messages
Filled(n) == [k \in 1..n |-> Plain("m1")]

\* The most a queue holds at the start of a teardown
Fill(q) == IF maxsize(q) = 0 THEN MaxQueue ELSE maxsize(q)

\* Teardown starts with any content in the queues and any list to clear;
\* hist keeps the list, the number of calls and the queues as the last call found them
InitTeardown ==
    /\ queues \in {c \in [QueueIds -> {Filled(n) : n \in 0..2}] :
                      \A q \in QueueIds : Len(c[q]) <= Fill(q)}
    /\ sysq = [w \in Workers |-> <<>>]
    /\ received = [w \in Workers |-> EmptyDict]
    /\ frame = [w \in Contexts |-> Idle]
    /\ uuid = 0
    /\ hist \in [w : {"T"}, names : ClearLists, calls : {0}, queues : {queues}]

\* T alone: free_resources is called up to MaxCalls times, nobody else runs
NextTeardown ==
    \/ /\ hist.calls < MaxCalls
       /\ free_resources("T", hist.names)
       /\ hist' = [hist EXCEPT !.calls = @ + 1, !.queues = queues]
    \/ clear_empty("T") /\ UNCHANGED hist
    \/ clear_get("T") /\ UNCHANGED hist
    \/ resume("T") /\ UNCHANGED hist

SpecTeardown == InitTeardown /\ [][NextTeardown]_vars

\* T is torn down while R goes on consuming from its queues
NextDrain ==
    \/ NextTeardown
    \/ \E n \in DOMAIN ConsumeQueues("R") :
          consume("R", n, FALSE) /\ UNCHANGED hist
    \/ consume_get("R") /\ UNCHANGED hist
    \/ resume("R") /\ UNCHANGED hist

SpecDrain == InitTeardown /\ [][NextDrain]_vars

----------------------------------------------------------------------------
(* is_full: process.py 149-177 *)

\* What an if statement takes for true in a T.Optional[str]
Truthy(name) == name # None /\ name # ""

NoneGot == "None of params was got!"
OnlyOne == "Only one of params must set!"
NoConsumeQueue == "Consume queue does not exist."
NoPublishQueue == "Publish queue does not exist."

\* Lines 170-177: some destination of the channel is full
AnyFull(dests) == \E i \in 1..Len(dests) : full(dests[i])

\* What is_full gives back or raises
IsFull(w, publish_queue_name, consume_queue_name) ==
    IF publish_queue_name = None /\ consume_queue_name = None
    THEN Raise(NoneGot)
    ELSE IF Truthy(publish_queue_name) /\ Truthy(consume_queue_name)
    THEN Raise(OnlyOne)
    ELSE IF Truthy(consume_queue_name)
    THEN IF consume_queue_name \notin DOMAIN ConsumeQueues(w)
         THEN Raise(NoConsumeQueue)
         ELSE RetBool(full(ConsumeQueues(w)[consume_queue_name]))
    ELSE IF publish_queue_name \notin DOMAIN PublishQueues(w)
         THEN Raise(NoPublishQueue)
         ELSE RetBool(AnyFull(PublishQueues(w)[publish_queue_name]))

\* is_full only reads the queues
is_full(w, publish_queue_name, consume_queue_name) ==
    /\ AtRest(w)
    /\ frame' = [frame EXCEPT ![w] =
                   Return([Idle EXCEPT !.op = "is_full"],
                          IsFull(w, publish_queue_name, consume_queue_name))]
    /\ UNCHANGED <<queues, sysq, received, uuid>>

\* The names is_full is called with: no name, the empty string, channel names
ProbeNames == {None, ""} \cup ChannelNames

NoProbe == [w |-> "", publish_queue_name |-> None, consume_queue_name |-> None]

\* Probes start with any content in the queues; hist keeps the arguments of
\* the call in progress
InitProbe ==
    /\ queues \in {c \in [QueueIds -> {Filled(n) : n \in 0..2}] :
                      \A q \in QueueIds : Len(c[q]) <= Fill(q)}
    /\ sysq = [w \in Workers |-> <<>>]
    /\ received = [w \in Workers |-> EmptyDict]
    /\ frame = [w \in Contexts |-> Idle]
    /\ uuid = 0
    /\ hist = NoProbe @@ [queues |-> queues]

\* One call of is_full at a time, by any worker with any pair of arguments
NextProbe ==
    \/ \E w \in Contexts, p \in ProbeNames, c \in ProbeNames :
          /\ \A v \in Contexts : AtRest(v)
          /\ is_full(w, p, c)
          /\ hist' = [w |-> w, publish_queue_name |-> p, consume_queue_name |-> c,
                      queues |-> queues]
    \/ \E w \in Contexts :
          resume(w) /\ hist' = NoProbe @@ [queues |-> queues]

SpecProbe == InitProbe /\ [][NextProbe]_vars

----------------------------------------------------------------------------
(* A stream over one bounded channel, as VideoSender and VideoConsumer run it: *)
(* Q publishes StreamLen messages without clear_on_overflow, R calls consume   *)
(* StreamLen times, both running concurrently and each scheduled fairly.       *)
(* The channel is "frames" (maxsize 2) or "video" (maxsize 1).                 *)

StreamChannels == {"frames", "video"}

InitStream ==
    /\ queues = [q \in QueueIds |-> <<>>]
    /\ sysq = [w \in Workers |-> <<>>]
    /\ received = [w \in Workers |-> EmptyDict]
    /\ frame = [w \in Contexts |-> Idle]
    /\ uuid = 0
    /\ hist \in [channel : StreamChannels, sent : {0}, asked : {0},
                  published : {<<>>}, returned : {<<>>}]

\* VideoSender.run: for _ in range(N): self.publish(z)
VideoSender ==
    \/ \E m \in Messages :
          /\ hist.sent < StreamLen
          /\ publish("Q", m, hist.channel, FALSE, FALSE)
          /\ hist' = [hist EXCEPT !.sent = @ + 1]
    \/ /\ publish_put("Q")
       /\ hist' = [hist EXCEPT !.published = Append(@, frame["Q"].message)]
    \/ resume("Q") /\ UNCHANGED hist

\* VideoConsumer.run: for _ in range(N): record = self.consume()
VideoConsumer ==
    \/ /\ hist.asked < StreamLen
       /\ consume("R", hist.channel, FALSE)
       /\ hist' = [hist EXCEPT !.asked = @ + 1]
    \/ /\ consume_get("R")
       /\ hist' = IF frame'["R"].pc = "done"
                  THEN [hist EXCEPT !.returned = Append(@, frame'["R"].ret.msg)]
                  ELSE hist
    \/ resume("R") /\ UNCHANGED hist

NextStream == VideoSender \/ VideoConsumer

SpecStream ==
    InitStream /\ [][NextStream]_vars /\ WF_vars(VideoSender) /\ WF_vars(VideoConsumer)

----------------------------------------------------------------------------
(* Correlated replies: P waits for replies that Q enqueues, in any order and *)
(* with any of the ids of SysIds, while P waits or before                     *)

NextSys ==
    \E w \in Workers :
        \/ \E id \in SysIds, d \in Payloads :
              /\ w = "Q"
              /\ hist.sent < MaxReplies
              /\ publish_to_system_queue(w, id, "P", d)
              /\ Sent
        \/ \E id \in SysIds :
              /\ w = "P"
              /\ consume_from_system_queue(w, id)
              /\ EnterSys(w, id)
        \/ system_get(w) /\ Took(w)
        \/ /\ resume(w)
           /\ hist' = IF w = "P" THEN [NoHist EXCEPT !.sent = hist.sent] ELSE hist

SpecSys == Init /\ [][NextSys]_vars

----------------------------------------------------------------------------
(* Personal sends and replies, one call at a time: P and Q publish, personal *)
(* or not, and Q and R enqueue replies for any worker. hist keeps the state   *)
(* and the arguments of the call in progress, and the ids given out so far.   *)

NoRouted == NoHist @@ [client_process |-> "", data |-> "", ids |-> {}]

InitPersonal ==
    /\ queues = [q \in QueueIds |-> <<>>]
    /\ sysq = [w \in Workers |-> <<>>]
    /\ received = [w \in Workers |-> EmptyDict]
    /\ frame = [w \in Contexts |-> Idle]
    /\ uuid = 0
    /\ hist = NoRouted

\* The replies waiting in the system queues
Routed == Len(sysq["P"]) + Len(sysq["Q"]) + Len(sysq["R"])

NextPersonal ==
    \/ \E w \in {"P", "Q"}, n \in {None, "frames"}, is_personal \in BOOLEAN :
          /\ Quiet /\ Room(w, n)
          /\ is_personal => uuid <= MaxUuid
          /\ publish(w, "m1", n, FALSE, is_personal)
          /\ hist' = [NoRouted EXCEPT !.w = w, !.queues = queues, !.sysq = sysq,
                                      !.queue_name = n, !.message = "m1",
                                      !.is_personal = is_personal, !.uuid = uuid,
                                      !.ids = hist.ids]
    \/ \E w \in Workers : publish_put(w) /\ UNCHANGED hist
    \/ \E w \in {"Q", "R"}, id \in SysIds, target \in Workers :
          /\ Quiet /\ Routed < MaxRouted
          /\ publish_to_system_queue(w, id, target, "pong")
          /\ hist' = [NoRouted EXCEPT !.w = w, !.queues = queues, !.sysq = sysq,
                                      !.personal_id = id, !.client_process = target,
                                      !.data = "pong", !.ids = hist.ids]
    \/ \E w \in Workers :
          /\ resume(w)
          /\ hist' = [NoRouted EXCEPT !.ids =
                        IF frame[w].ret.kind = "id"
                        THEN hist.ids \cup {frame[w].ret.id} ELSE hist.ids]

SpecPersonal == InitPersonal /\ [][NextPersonal]_vars

----------------------------------------------------------------------------
(* The cap of the pending buffer: Q enqueues replies with the distinct ids   *)
(* 1, 2, ... before P makes its first consume_from_system_queue call         *)

\* Number of replies Q may enqueue: enough to pass the cap
CapReplies == MaxPersonalMessages + 1 + MaxExtra

\* An id that no reply carries
NeverId == CapReplies + 1

\* The ids P waits for
WaitIds == {1, MaxPersonalMessages, MaxPersonalMessages + 1, NeverId}

NextCap ==
    \E w \in Workers :
        \/ /\ w = "Q"
           /\ hist.w = ""
           /\ hist.sent < CapReplies
           /\ publish_to_system_queue(w, hist.sent + 1, "P", "pong")
           /\ Sent
        \/ \E id \in WaitIds :
              /\ w = "P"
              /\ consume_from_system_queue(w, id)
              /\ EnterSys(w, id)
        \/ system_get(w) /\ Took(w)
        \/ resume(w) /\ UNCHANGED hist

SpecCap == Init /\ [][NextCap]_vars

\* The same run with P scheduled fairly: a reply that P can take is taken
SpecDeliver == Init /\ [][NextCap]_vars /\ WF_vars(system_get("P") /\ Took("P"))

----------------------------------------------------------------------------
(* Properties *)

Last(s) == s[Len(s)]
Front(s) == SubSeq(s, 1, Len(s) - 1)

\* The observed call of worker w, an op, has returned or raised
Done(w, op) == hist.w = w /\ frame[w].op = op /\ frame[w].pc = "done"

\* The channel the observed call names, read off the wiring d of its worker
Named(d) ==
    IF hist.queue_name # None THEN hist.queue_name
    ELSE IF Cardinality(DOMAIN d) = 1 THEN OnlyKey(d) ELSE NoTarget

\* The observed publish call of w ran its loop to the end
Published(w) ==
    /\ Done(w, "publish")
    /\ frame[w].ret.kind \in {"None", "id"}
    /\ Named(PublishQueues(w)) \in DOMAIN PublishQueues(w)

\* The destinations of the observed publish call
Dests(w) ==
    LET l == PublishQueues(w)[Named(PublishQueues(w))] IN {l[k] : k \in DOMAIN l}

\* C5: a publish call with clear_on_overflow on a bounded queue is never blocked,
\* neither in the discard step (get on an empty queue) nor in the enqueue step
\* (put on a full queue), whatever the other workers do
C5_NonBlockingProducer ==
    \A w \in Workers :
        (frame[w].op = "publish" /\ frame[w].flag /\ frame[w].pc \in {"discard", "put"}
           /\ maxsize(Dest(w)) > 0)
        => /\ frame[w].pc = "discard" => CanGet(Dest(w))
           /\ frame[w].pc = "put" => CanPut(Dest(w))

\* C6: publish(m, clear_on_overflow=true) on a full bounded queue that nobody else
\* touches leaves m as the newest entry, after the previous content without its
\* oldest entry, and at most maxsize entries
C6_OverflowClearPublish ==
    \A w \in Workers :
        (Published(w) /\ hist.flag) =>
            \A q \in Dests(w) :
                (maxsize(q) > 0 /\ Len(hist.queues[q]) = maxsize(q)) =>
                    /\ queues[q] # <<>>
                    /\ Last(queues[q]).data = hist.message
                    /\ Front(queues[q]) = Tail(hist.queues[q])
                    /\ Len(queues[q]) <= maxsize(q)

C6_Witness ==
    /\ Published("P") /\ hist.flag
    /\ Len(hist.queues[1]) = 2 /\ Len(hist.queues[2]) = 2
    /\ hist.queues[1][1].data = "m1" /\ hist.queues[1][2].data = "m2"
    /\ hist.message = "m1"

\* C8: when publish(m) returns, every queue of the channel holds m as its newest
\* entry, and a consume call changes no queue but the one it reads
C8_FanOutIndependence ==
    \A w \in Workers :
        /\ Published(w) =>
               \A q \in Dests(w) :
                   /\ queues[q] # <<>>
                   /\ Last(queues[q]).data = hist.message
                   /\ Last(queues[q]).personal = hist.is_personal
        /\ (Done(w, "consume") /\ frame[w].ret.kind = "message") =>
               \A q \in QueueIds :
                   q # ConsumeQueues(w)[Named(ConsumeQueues(w))] =>
                       queues[q] = hist.queues[q]

C8_Witness ==
    /\ Done("R", "consume") /\ hist.queue_name = "frames"
    /\ frame["R"].ret.msg = Plain("m1")
    /\ hist.queues[1] = <<Plain("m1")>> /\ queues[1] = <<>>
    /\ queues[2] = <<Plain("m1")>>

\* What a publish call on the one channel of w makes of queue q, and gives back
PublishedQueue(w, q) ==
    LET pre == hist.queues[q]
        kept == IF hist.flag /\ maxsize(q) > 0 /\ Len(pre) >= maxsize(q)
                THEN Tail(pre) ELSE pre
        m == IF hist.is_personal
             THEN PersonalMessage(hist.uuid + 1, w, hist.message)
             ELSE Plain(hist.message)
    IN IF q \in Dests(w) THEN Append(kept, m) ELSE pre

\* C9: on a worker with exactly one publish channel, publish(x) and
\* publish(x, only_name) have one and the same effect on every queue and one and
\* the same result; on a worker with exactly one consume channel, so have
\* consume() and consume(only_name)
C9_DefaultChannel ==
    \A w \in Workers :
        /\ (hist.w = w /\ frame[w].op = "publish"
              /\ Cardinality(DOMAIN PublishQueues(w)) = 1
              /\ hist.queue_name \in {None, OnlyKey(PublishQueues(w))})
           => IF frame[w].pc = "done"
              THEN /\ frame[w].ret = IF hist.is_personal THEN RetId(hist.uuid + 1)
                                     ELSE RetNone
                   /\ \A q \in QueueIds : queues[q] = PublishedQueue(w, q)
              ELSE frame[w].queue_name = OnlyKey(PublishQueues(w))
        /\ (hist.w = w /\ frame[w].op = "consume"
              /\ Cardinality(DOMAIN ConsumeQueues(w)) = 1
              /\ hist.queue_name \in {None, OnlyKey(ConsumeQueues(w))})
           => LET src == ConsumeQueues(w)[OnlyKey(ConsumeQueues(w))]
                  pre == hist.queues[src]
              IN IF frame[w].pc = "done"
                 THEN /\ pre # <<>>
                      /\ frame[w].ret = RetMessage(IF hist.flag THEN Last(pre) ELSE Head(pre))
                      /\ \A q \in QueueIds :
                            queues[q] = IF q # src THEN hist.queues[q]
                                        ELSE IF hist.flag THEN <<>> ELSE Tail(pre)
                 ELSE frame[w].queue_name = OnlyKey(ConsumeQueues(w))

C9_Witness ==
    /\ Done("P", "publish") /\ hist.queue_name = None
    /\ hist.is_personal /\ frame["P"].ret = RetId(1)
    /\ hist.queues[1] # <<>>
    /\ Last(queues[2]) = PersonalMessage(1, "P", hist.message)

\* C10: publish(x) with no name on a worker with no publish channel, or with two
\* or more, returns None at once, enqueues nothing and raises nothing; consume()
\* with no name on a worker with no consume channel, or two or more, likewise
\* returns None without waiting and removes nothing
C10_AmbiguityGuard ==
    \A w \in Workers :
        /\ (hist.w = w /\ frame[w].op = "publish" /\ hist.queue_name = None
              /\ Cardinality(DOMAIN PublishQueues(w)) # 1)
           => /\ frame[w].pc = "done"
              /\ frame[w].ret = RetNone
              /\ queues = hist.queues
              /\ uuid = hist.uuid
              /\ \A v \in Workers : sysq[v] = <<>>
        /\ (hist.w = w /\ frame[w].op = "consume" /\ hist.queue_name = None
              /\ Cardinality(DOMAIN ConsumeQueues(w)) # 1)
           => /\ frame[w].pc = "done"
              /\ frame[w].ret = RetNone
              /\ queues = hist.queues

C10_Witness ==
    /\ Done("Q", "publish") /\ hist.queue_name = None /\ hist.is_personal
    /\ queues[1] # <<>> /\ queues[3] # <<>>

\* C7: the messages put on a queue without clear_on_overflow come back from
\* consume in the order they were put, each once: what consume has returned from
\* a queue, followed by what the queue still holds, is what was put on it
C7_FifoPerChannel ==
    \A q \in QueueIds : hist.returned[q] \o queues[q] = hist.published[q]

C7_Witness ==
    /\ hist.published[1] = <<Plain("m1"), Plain("m2")>>
    /\ hist.returned[1] = <<Plain("m1"), Plain("m2")>>
    /\ queues[2] = <<Plain("m1"), Plain("m2")>>

Waited(w) == Done(w, "consume_from_system_queue")

\* C1: a consume_from_system_queue(id) call that takes two replies with other
\* ids x and y and then the reply carrying id returns the data of that reply, and
\* leaves the buffer as it was at the start of the call plus one entry for x and
\* one for y, each holding the data of its reply
C1_OutOfOrderRoundTrip ==
    \A w \in Workers :
        (hist.w = w /\ frame[w].op = "consume_from_system_queue"
           /\ Len(hist.got) = 3
           /\ hist.got[1].id # hist.personal_id
           /\ hist.got[2].id # hist.personal_id
           /\ hist.got[3].id = hist.personal_id)
        => LET x == hist.got[1].id
               y == hist.got[2].id
           IN /\ frame[w].pc = "done"
              /\ frame[w].ret = RetData(hist.got[3].data)
              /\ DOMAIN received[w] = DOMAIN hist.received \cup {x, y}
              /\ received[w][y] = hist.got[2].data
              /\ x # y => received[w][x] = hist.got[1].data
              /\ \A k \in DOMAIN hist.received \ {x, y} :
                    received[w][k] = hist.received[k]

C1_Witness ==
    /\ Waited("P") /\ hist.personal_id = 3
    /\ hist.received = EmptyDict
    /\ hist.got = <<PersonalMessage(1, "P", "pong"), PersonalMessage(2, "P", "obj"),
                    PersonalMessage(3, "P", "pong")>>
    /\ frame["P"].ret = RetData("pong")

\* C2: consume_from_system_queue(x) for an id x that an earlier call left in the
\* buffer returns the data that was enqueued for x, removes the entry of x, and
\* takes nothing from the system queue
C2_BufferedReply ==
    \A w \in Workers :
        (hist.w = w /\ frame[w].op = "consume_from_system_queue"
           /\ hist.personal_id \in DOMAIN hist.received)
        => /\ frame[w].pc = "done"
           /\ frame[w].ret = RetData(hist.received[hist.personal_id])
           /\ received[w] = DictDel(hist.received, hist.personal_id)
           /\ hist.got = <<>>

\* C3 as stated: the pending buffer never holds more than 50 replies
C3_AtMostFifty ==
    \A w \in Workers : Cardinality(DOMAIN received[w]) <= MaxPersonalMessages

\* C3: the pending buffer holds at most 51 replies, and at most 50 whenever the
\* worker goes on to take a reply from its system queue
C3_BufferCap ==
    \A w \in Workers :
        /\ Cardinality(DOMAIN received[w]) <= MaxPersonalMessages + 1
        /\ frame[w].pc = "sysget" => Cardinality(DOMAIN received[w]) <= MaxPersonalMessages

C3_Witness ==
    /\ Waited("P") /\ frame["P"].ret = Raise("Overflow")
    /\ Cardinality(DOMAIN received["P"]) = MaxPersonalMessages + 1

\* The observed call found nothing buffered, at least 51 replies in the system
\* queue, and none of them carries the id it waits for
FloodedWait(w) ==
    /\ hist.w = w /\ frame[w].op = "consume_from_system_queue"
    /\ hist.received = EmptyDict
    /\ Len(hist.sysq) >= MaxPersonalMessages + 1
    /\ \A k \in DOMAIN hist.sysq :
          /\ hist.sysq[k].id # hist.personal_id
          /\ \A j \in DOMAIN hist.sysq : j # k => hist.sysq[j].id # hist.sysq[k].id

\* C4: with 51 replies of distinct ids enqueued before the first wait, a wait
\* for an id that none of them carries ends in the overflow fault, raised when
\* the 51st reply has been taken and not before; until then the wait is never
\* blocked, and it never returns data
C4_OverflowFault ==
    \A w \in Workers :
        FloodedWait(w) =>
            /\ frame[w].pc = "done" =>
                  /\ frame[w].ret = Raise("Overflow")
                  /\ Len(hist.got) = MaxPersonalMessages + 1
            /\ frame[w].pc = "sysget" =>
                  /\ Len(hist.got) <= MaxPersonalMessages
                  /\ sysq[w] # <<>>

C4_Witness ==
    /\ FloodedWait("P") /\ hist.personal_id = NeverId
    /\ Len(hist.sysq) = MaxPersonalMessages + 1
    /\ frame["P"].pc = "done" /\ frame["P"].ret = Raise("Overflow")
    /\ sysq["P"] = <<>>

\* C11: consume(clear_all_messages=true) on a queue that holds m1..mk, k >= 1,
\* and that nobody else touches returns mk and leaves the queue empty; on an
\* empty queue it waits in its first get
C11_LatestWins ==
    \A w \in Workers :
        (hist.w = w /\ frame[w].op = "consume" /\ hist.flag
           /\ Named(ConsumeQueues(w)) \in DOMAIN ConsumeQueues(w))
        => LET src == ConsumeQueues(w)[Named(ConsumeQueues(w))]
               pre == hist.queues[src]
           IN IF pre = <<>>
              THEN frame[w].pc = "get" /\ queues[src] = <<>>
              ELSE frame[w].pc = "done" =>
                      /\ frame[w].ret = RetMessage(Last(pre))
                      /\ queues[src] = <<>>

C11_Witness ==
    /\ Done("R", "consume") /\ hist.flag /\ hist.queue_name = "frames"
    /\ hist.queues[1] = <<Plain("m1"), Plain("m2")>>
    /\ frame["R"].ret = RetMessage(Plain("m2"))
    /\ queues[1] = <<>>

\* The queue of the stream
StreamQueue == ConsumeQueues("R")[hist.channel]

\* Both loops of the stream have run to their end
StreamDone ==
    /\ hist.sent = StreamLen /\ hist.asked = StreamLen
    /\ AtRest("Q") /\ AtRest("R")
    /\ Len(hist.returned) = StreamLen
    /\ hist.returned = hist.published
    /\ queues[StreamQueue] = <<>>

\* C12: on a bounded channel, with the publisher sending N messages without
\* clear_on_overflow and the consumer calling consume N times, nothing is lost
\* or reordered (what consume returned, followed by what the queue holds, is
\* what was put), the queue never holds more than its maxsize, and under fair
\* scheduling both loops end with all N messages returned in publish order
C12_Backpressure ==
    /\ [](/\ hist.returned \o queues[StreamQueue] = hist.published
          /\ Len(queues[StreamQueue]) <= maxsize(StreamQueue))
    /\ <>StreamDone

C12_Witness ==
    /\ StreamDone /\ hist.channel = "video"
    /\ hist.returned = <<Plain("m1"), Plain("m2"), Plain("m1")>>

\* The queues bound to a name of T, as a consume queue or as a destination
Bound(n) ==
    (IF n \in DOMAIN ConsumeQueues("T") THEN {ConsumeQueues("T")[n]} ELSE {})
    \cup (IF n \in DOMAIN PublishQueues("T")
          THEN {PublishQueues("T")[n][i] : i \in 1..Len(PublishQueues("T")[n])}
          ELSE {})

\* The queues bound to a name of the list that is cleared
Listed == UNION {Bound(hist.names[k]) : k \in 1..Len(hist.names)}

\* C13: when free_resources has returned and nobody else touched the queues,
\* the consume queue and every destination of the publish channel bound to a
\* name of queues_to_clear are empty, also for a name bound both ways, and
\* every other queue is as it was
C13_TeardownDrains ==
    Done("T", "free_resources") =>
        /\ frame["T"].ret = RetNone
        /\ \A q \in Listed : queues[q] = <<>>
        /\ \A q \in QueueIds \ Listed : queues[q] = hist.queues[q]

\* C14: clear_queues on listed channels that are all empty, called once or
\* twice, raises nothing, never waits in a get and leaves every queue as it was
C14_IdempotentDrain ==
    (hist.calls >= 1 /\ \A q \in Listed : hist.queues[q] = <<>>)
    => /\ frame["T"].pc # "clear_get"
       /\ frame["T"].ret \in {RetPending, RetNone}
       /\ queues = hist.queues

C14_Witness ==
    /\ Done("T", "free_resources") /\ hist.calls = 2
    /\ hist.names = <<"cmd", "frames">>
    /\ \A q \in Listed : hist.queues[q] = <<>>
    /\ frame["T"].ret = RetNone

\* C18: clear_queue completes without raising in every interleaving with a
\* reader of the queues it drains: the get with a timeout never fails because
\* another context removed the last message
C18_DrainNeverRaises == frame["T"].ret # Raise("Empty")

\* C15: is_full raises the argument error when neither or both names are
\* given, the not-found error when the one name given is no channel of its
\* kind, and otherwise gives back whether the consume queue is full, or whether
\* some destination of the publish channel is full; it changes no queue
C15_IsFull ==
    \A w \in Contexts :
        (Done(w, "is_full")) =>
        LET p == hist.publish_queue_name
            c == hist.consume_queue_name
            r == frame[w].ret
        IN /\ queues = hist.queues
           /\ IF p = None /\ c = None THEN r = Raise(NoneGot)
              ELSE IF p # None /\ c # None THEN r = Raise(OnlyOne)
              ELSE IF c # None
              THEN IF c \in DOMAIN ConsumeQueues(w)
                   THEN r = RetBool(full(ConsumeQueues(w)[c]))
                   ELSE r = Raise(NoConsumeQueue)
              ELSE IF p \in DOMAIN PublishQueues(w)
                   THEN r = RetBool(AnyFull(PublishQueues(w)[p]))
                   ELSE r = Raise(NoPublishQueue)

\* The observed call waits for an id that no reply carries
UnmatchedWait(w) ==
    hist.w = w /\ frame[w].op = "consume_from_system_queue" /\ hist.personal_id = NeverId

\* C16: a wait for an id that is not buffered and that no reply carries never
\* returns data; while fewer than 51 replies are buffered it is still waiting
\* in the get, and when it ends it ends in the overflow fault
C16_UnmatchedWait ==
    \A w \in Workers :
        UnmatchedWait(w) =>
            /\ frame[w].ret.kind # "data"
            /\ Cardinality(DOMAIN received[w]) <= MaxPersonalMessages => frame[w].pc = "sysget"
            /\ frame[w].pc # "sysget" => Waited(w) /\ frame[w].ret = Raise("Overflow")

C16_Witness ==
    /\ UnmatchedWait("P") /\ frame["P"].pc = "sysget"
    /\ sysq["P"] = <<>> /\ Len(hist.got) = 2
    /\ Cardinality(DOMAIN received["P"]) = 2

\* The place in the system queue, at the start of the observed call, of the
\* reply that carries id; 0 if there is none
PlaceOf(id) ==
    IF \E k \in DOMAIN hist.sysq : hist.sysq[k].id = id
    THEN CHOOSE k \in DOMAIN hist.sysq : hist.sysq[k].id = id
    ELSE 0

\* The observed call of P waits for id, which is not buffered; the reply that
\* carries id is in the system queue, and the replies ahead of it together
\* with the buffered ones are at most 50
Deliverable(id) ==
    /\ hist.w = "P" /\ frame["P"].op = "consume_from_system_queue"
    /\ hist.personal_id = id /\ id \notin DOMAIN hist.received
    /\ PlaceOf(id) > 0
    /\ PlaceOf(id) - 1 + Cardinality(DOMAIN hist.received) <= MaxPersonalMessages

\* The observed call has returned the data of the reply that carries id
Delivered(id) ==
    /\ Waited("P") /\ hist.personal_id = id /\ PlaceOf(id) > 0
    /\ frame["P"].ret = RetData(hist.sysq[PlaceOf(id)].data)

\* Every reply the observed call has taken and not returned is in the buffer
NoneLost ==
    \A w \in Workers :
        (hist.w = w /\ frame[w].op = "consume_from_system_queue"
           /\ frame[w].pc \in {"sysget", "done"})
        => \A k \in DOMAIN hist.got :
              \/ hist.got[k].id = hist.personal_id
              \/ /\ hist.got[k].id \in DOMAIN received[w]
                 /\ received[w][hist.got[k].id] = hist.got[k].data

\* C19: under fair scheduling a wait for id, whose reply is in the system queue
\* with at most 50 replies ahead of it and in the buffer together, returns the
\* data of that reply (and never ends otherwise); every reply taken during a
\* call is the one returned or is in the buffer afterwards
C19_EventualDelivery ==
    /\ [](NoneLost)
    /\ \A id \in WaitIds :
          /\ [](Deliverable(id) /\ frame["P"].pc = "done" => Delivered(id))
          /\ Deliverable(id) ~> Delivered(id)

C19_Witness ==
    /\ Delivered(MaxPersonalMessages + 1) /\ Deliverable(MaxPersonalMessages + 1)
    /\ hist.received = EmptyDict
    /\ Len(hist.got) = MaxPersonalMessages + 1
    /\ Cardinality(DOMAIN received["P"]) = MaxPersonalMessages

\* C20: the buffer never holds more than 51 replies; the overflow fault is
\* raised only with exactly 51 buffered; the fault keeps the buffer, so that a
\* later call for a buffered id returns its data without taking from the
\* system queue and removes its entry, and a wait for an id that is not
\* buffered is then let into the get again
C20_ActualBound ==
    \A w \in Workers :
        /\ Cardinality(DOMAIN received[w]) <= MaxPersonalMessages + 1
        /\ (Waited(w) /\ frame[w].ret = Raise("Overflow"))
              => Cardinality(DOMAIN received[w]) = MaxPersonalMessages + 1
        /\ (Waited(w) /\ hist.personal_id \in DOMAIN hist.received)
              => /\ frame[w].ret = RetData(hist.received[hist.personal_id])
                 /\ received[w] = DictDel(hist.received, hist.personal_id)
                 /\ hist.got = <<>>
        /\ (Waited(w) /\ hist.personal_id \notin DOMAIN hist.received
              /\ Cardinality(DOMAIN hist.received) <= MaxPersonalMessages)
              => hist.got # <<>>

\* C17: a personal publish that enqueues puts on every destination, and
\* nowhere else, a PersonalMessage with the name of the publisher and an id
\* that the publishers were not given before, and returns that id; a publish
\* that is not personal returns None; publish_to_system_queue(id, target, data)
\* appends PersonalMessage(id, target, data) to the system queue of target and
\* changes no other system queue and no queue of the channels
C17_PersonalRouting ==
    \A w \in Workers :
        /\ (Published(w) /\ hist.is_personal) =>
              LET id == frame[w].ret.id IN
              /\ frame[w].ret = RetId(id)
              /\ id \notin hist.ids
              /\ \A q \in QueueIds :
                    queues[q] = IF q \in Dests(w)
                                THEN Append(hist.queues[q],
                                            PersonalMessage(id, w, hist.message))
                                ELSE hist.queues[q]
              /\ sysq = hist.sysq
        /\ (Done(w, "publish") /\ ~hist.is_personal) => frame[w].ret = RetNone
        /\ Done(w, "publish_to_system_queue") =>
              /\ sysq = [hist.sysq EXCEPT ![hist.client_process] =
                           Append(@, PersonalMessage(hist.personal_id,
                                                     hist.client_process, hist.data))]
              /\ queues = hist.queues
              /\ frame[w].ret = RetNone

C17_Witness ==
    /\ Done("Q", "publish_to_system_queue") /\ hist.client_process = "R"
    /\ Len(sysq["R"]) = 1 /\ Len(sysq["P"]) = 1 /\ sysq["Q"] = <<>>
    /\ hist.ids = {1, 2}
    /\ queues[1] = <<PersonalMessage(1, "P", "m1"), PersonalMessage(2, "Q", "m1")>>
    /\ queues[2] = <<PersonalMessage(1, "P", "m1")>>

====
